---- MODULE Spec2Model ----
(***************************************************************************)
(* Model of the audio preprocessing pipeline of preprocess.py: Loader,     *)
(* Padder, LogSpectrogramExtractor, MinMaxNormalizer, Saver and            *)
(* PreprocessingPipeline.                                                  *)
(*                                                                         *)
(* Array elements are numpy floats, modelled in exact arithmetic as pairs  *)
(* <<n, d>> with d >= 0 in lowest terms: d > 0 is the rational n/d,        *)
(* <<0, 0>> is NaN, <<1, 0>> is +inf and <<-1, 0>> is -inf (numpy does not *)
(* raise on a division by zero, it yields these values).                   *)
(* A path is the sequence of its components; None is the empty sequence.   *)
(***************************************************************************)
EXTENDS Integers, Sequences, FiniteSets, TLC

VARIABLES
    loader,                 \* PreprocessingPipeline._loader: None or <<sample_rate, duration>>
    num_expected_samples,   \* PreprocessingPipeline._num_expected_samples
    padder,                 \* Padder.mode of PreprocessingPipeline.padder
    normalizer,             \* <<min, max>> of PreprocessingPipeline.normalizer
    saver,                  \* <<feature_save_dir, min_max_values_save_dir>>
    min_max_values,         \* PreprocessingPipeline.min_max_values: key -> [min, max]
    pc,                     \* position inside process / _process_file
    files,                  \* the file paths os.walk yields, in walk order
    idx,                    \* index in files of the file being processed
    loaded,                 \* the signal as Loader.load returned it
    signal,                 \* local signal of _process_file
    feature,                \* local feature of _process_file
    norm_feature,           \* local norm_feature of _process_file
    save_path,              \* local save_path of _process_file
    disk,                   \* feature files on disk: save path -> array
    registry_before,        \* min_max_values when the current file started
    persist_calls,          \* number of calls of Saver.save_min_max_values
    persisted,              \* the registry handed to Saver.save_min_max_values
    denorm                  \* result of MinMaxNormalizer.denormalize

vars == <<loader, num_expected_samples, padder, normalizer, saver,
          min_max_values, pc, files, idx, loaded, signal, feature,
          norm_feature, save_path, disk, registry_before, persist_calls,
          persisted, denorm>>

-----------------------------------------------------------------------------
(* Bounds *)

MaxFiles == 2
MaxSignalLen == 3
MaxSpecLen == 2
MaxArrayLen == 3

None == <<>>
NoNumExpected == -1

-----------------------------------------------------------------------------
(* Float arithmetic on <<n, d>> *)

Abs(n) == IF n < 0 THEN -n ELSE n

Sign(n) == IF n < 0 THEN -1 ELSE IF n > 0 THEN 1 ELSE 0

RECURSIVE Gcd(_, _)
Gcd(a, b) == IF b = 0 THEN a ELSE Gcd(b, a % b)

Reduce(n, d) ==
    IF d = 0 THEN <<Sign(n), 0>>
    ELSE LET g == Gcd(Abs(n), Abs(d))
             s == IF d < 0 THEN -1 ELSE 1
         IN  <<(s * n) \div g, (s * d) \div g>>

NaN == <<0, 0>>

FromInt(i) == <<i, 1>>

FAdd(x, y) ==
    IF x[2] = 0 /\ y[2] = 0
    THEN (IF x = y THEN x ELSE NaN)
    ELSE Reduce(x[1] * y[2] + y[1] * x[2], x[2] * y[2])

FNeg(x) == <<-x[1], x[2]>>

FSub(x, y) == FAdd(x, FNeg(y))

FMul(x, y) == Reduce(x[1] * y[1], x[2] * y[2])

FDiv(x, y) ==
    IF x = NaN \/ y = NaN THEN NaN
    ELSE IF y[2] = 0 THEN (IF x[2] = 0 THEN NaN ELSE <<0, 1>>)
    ELSE IF y[1] = 0 THEN (IF x[1] = 0 THEN NaN ELSE <<Sign(x[1]), 0>>)
    ELSE IF x[2] = 0 THEN <<Sign(x[1]) * Sign(y[1]), 0>>
    ELSE Reduce(x[1] * y[2], x[2] * y[1])

\* x < y for finite x and y
FLess(x, y) == x[1] * y[2] < y[1] * x[2]

\* array.min() and array.max() of a non-empty array of finite values
ArrayMin(array) ==
    CHOOSE m \in {array[i] : i \in DOMAIN array} :
        \A i \in DOMAIN array : ~FLess(array[i], m)

ArrayMax(array) ==
    CHOOSE m \in {array[i] : i \in DOMAIN array} :
        \A i \in DOMAIN array : ~FLess(m, array[i])

-----------------------------------------------------------------------------
(* MinMaxNormalizer *)

\* variant: the rescaling to [min, max] of line 103 left out
normalize_unit_range(nz, array) ==
    [i \in DOMAIN array |->
        FDiv(FSub(array[i], ArrayMin(array)),
             FSub(ArrayMax(array), ArrayMin(array)))]

normalize(nz, array) ==
    LET norm_array == [i \in DOMAIN array |->
            FDiv(FSub(array[i], ArrayMin(array)),
                 FSub(ArrayMax(array), ArrayMin(array)))]
    IN  [i \in DOMAIN array |->
            FAdd(FMul(norm_array[i], FSub(FromInt(nz[2]), FromInt(nz[1]))),
                 FromInt(nz[1]))]

denormalize(nz, norm_array, original_min, original_max) ==
    LET array == [i \in DOMAIN norm_array |->
            FDiv(FSub(norm_array[i], FromInt(nz[1])),
                 FSub(FromInt(nz[2]), FromInt(nz[1])))]
    IN  [i \in DOMAIN norm_array |->
            FAdd(FMul(array[i], FSub(original_max, original_min)),
                 original_min)]

-----------------------------------------------------------------------------
(* Padder *)

Repeat(v, n) == [i \in 1..n |-> v]

\* np.pad(array, (0, n), mode) raises ValueError on an empty array unless
\* the mode is "constant"
PadRaises(mode, array, num_missing_items) ==
    mode # "constant" /\ Len(array) = 0 /\ num_missing_items > 0

left_pad(mode, array, num_missing_items) ==
    IF mode = "constant"
    THEN Repeat(0, num_missing_items) \o array
    ELSE Repeat(array[1], num_missing_items) \o array

right_pad(mode, array, num_missing_items) ==
    IF mode = "constant"
    THEN array \o Repeat(0, num_missing_items)
    ELSE array \o Repeat(array[Len(array)], num_missing_items)

-----------------------------------------------------------------------------
(* Saver *)

\* os.path.split(file_path)[1]
basename(file_path) == file_path[Len(file_path)]

generate_save_path(sv, file_path) == <<sv[1], basename(file_path) \o ".npy">>

\* the value save_feature returns: it has no return statement
save_feature_result(sv, file_path) == None

\* np.save(save_path, feature)
np_save(d, path, array) ==
    [p \in DOMAIN d \cup {path} |-> IF p = path THEN array ELSE d[p]]

-----------------------------------------------------------------------------
(* PreprocessingPipeline *)

\* int(loader.sample_rate * loader.duration), duration = <<num, den>>
NumExpectedSamples(l) == (l[1] * l[2][1]) \div l[2][2]

is_padding_necessary(sig, expected) == Len(sig) < expected

\* variant: the missing samples put in front
apply_padding_left(mode, sig, expected) ==
    left_pad(mode, sig, expected - Len(sig))

apply_padding(mode, sig, expected) == right_pad(mode, sig, expected - Len(sig))

store_min_max_value(reg, key, min_val, max_val) ==
    [k \in DOMAIN reg \cup {key} |->
        IF k = key THEN [min |-> min_val, max |-> max_val] ELSE reg[k]]

EmptyDict == [k \in {} |-> None]

-----------------------------------------------------------------------------
(* Inputs *)

PadderModes == {"constant", "edge"}

Normalizers == {<<0, 1>>, <<-1, 1>>}

Savers == {<<"spectrograms", "content">>}

SampleRates == {2, 3}

\* durations in seconds, <<num, den>>
Durations == {<<1, 1>>, <<1, 2>>}

Loaders == {<<sr, d>> : sr \in SampleRates, d \in Durations}

FilePaths == {<<"recordings", "a.wav">>, <<"recordings", "b.wav">>,
              <<"recordings", "sub", "a.wav">>}

\* os.walk is top-down: the files of a directory come before the files of
\* its subdirectories, in no particular order among themselves
Walks ==
    {w \in UNION {[1..n -> FilePaths] : n \in 0..MaxFiles} :
        \A i, j \in DOMAIN w :
            i < j => (w[i] # w[j] /\ Len(w[i]) <= Len(w[j]))}

SampleValues == {1, 2}

Signals == UNION {[1..n -> SampleValues] : n \in 0..MaxSignalLen}

\* decibel values of a log spectrogram
DbValues == {FromInt(-4), FromInt(0)}

Spectrograms == UNION {[1..n -> DbValues] : n \in 1..MaxSpecLen}

-----------------------------------------------------------------------------
(* PreprocessingPipeline: construction and wiring *)

Init ==
    /\ loader = None
    /\ num_expected_samples = NoNumExpected
    /\ padder \in PadderModes
    /\ normalizer \in Normalizers
    /\ saver \in Savers
    /\ min_max_values = EmptyDict
    /\ pc = "idle"
    /\ files = <<>>
    /\ idx = 0
    /\ loaded = None
    /\ signal = None
    /\ feature = None
    /\ norm_feature = None
    /\ save_path = None
    /\ disk = EmptyDict
    /\ registry_before = EmptyDict
    /\ persist_calls = 0
    /\ persisted = EmptyDict
    /\ denorm = None

\* variant: the loader replaced, the derived count left as it was
loader_setter_stale(l) ==
    /\ pc = "idle"
    /\ loader' = l
    /\ UNCHANGED <<num_expected_samples, padder, normalizer, saver,
                   min_max_values, pc, files, idx, loaded, signal, feature,
                   norm_feature, save_path, disk, registry_before,
                   persist_calls, persisted, denorm>>

loader_setter(l) ==
    /\ pc = "idle"
    /\ loader' = l
    /\ num_expected_samples' = NumExpectedSamples(l)
    /\ UNCHANGED <<padder, normalizer, saver, min_max_values, pc, files, idx,
                   loaded, signal, feature, norm_feature, save_path, disk,
                   registry_before, persist_calls, persisted, denorm>>

process(walk) ==
    /\ pc = "idle"
    /\ files' = walk
    /\ idx' = 1
    /\ pc' = "walk"
    /\ UNCHANGED <<loader, num_expected_samples, padder, normalizer, saver,
                   min_max_values, loaded, signal, feature, norm_feature,
                   save_path, disk, registry_before, persist_calls, persisted,
                   denorm>>

\* a stage of _process_file raises: nothing catches it, process ends
Raise == pc' = "failed"

LoadStep ==
    /\ pc = "walk"
    /\ idx <= Len(files)
    /\ registry_before' = min_max_values
    /\ \/ /\ loader # None
          /\ \E s \in Signals : loaded' = s /\ signal' = s
          /\ pc' = "pad"
       \/ /\ Raise
          /\ UNCHANGED <<loaded, signal>>
    /\ UNCHANGED <<loader, num_expected_samples, padder, normalizer, saver,
                   min_max_values, files, idx, feature, norm_feature,
                   save_path, disk, persist_calls, persisted, denorm>>

PadStep ==
    /\ pc = "pad"
    /\ IF is_padding_necessary(signal, num_expected_samples)
       THEN IF PadRaises(padder, signal, num_expected_samples - Len(signal))
            THEN Raise /\ UNCHANGED signal
            ELSE /\ signal' = apply_padding(padder, signal, num_expected_samples)
                 /\ pc' = "extract"
       ELSE pc' = "extract" /\ UNCHANGED signal
    /\ UNCHANGED <<loader, num_expected_samples, padder, normalizer, saver,
                   min_max_values, files, idx, loaded, feature, norm_feature,
                   save_path, disk, registry_before, persist_calls, persisted,
                   denorm>>

\* the transform itself is librosa's: any spectrogram, or an exception
ExtractStep ==
    /\ pc = "extract"
    /\ \/ /\ \E spectrogram \in Spectrograms : feature' = spectrogram
          /\ pc' = "normalize"
          \* signal is not read again
          /\ loaded' = None
          /\ signal' = None
       \/ /\ Raise
          /\ UNCHANGED <<feature, loaded, signal>>
    /\ UNCHANGED <<loader, num_expected_samples, padder, normalizer, saver,
                   min_max_values, files, idx, norm_feature,
                   save_path, disk, registry_before, persist_calls, persisted,
                   denorm>>

NormalizeStep ==
    /\ pc = "normalize"
    /\ norm_feature' = normalize(normalizer, feature)
    /\ pc' = "save"
    /\ UNCHANGED <<loader, num_expected_samples, padder, normalizer, saver,
                   min_max_values, files, idx, loaded, signal, feature,
                   save_path, disk,
                   registry_before, persist_calls, persisted, denorm>>

\* variant: the min and max recorded before the feature is saved
SaveStepRecordsFirst ==
    /\ pc = "save"
    /\ min_max_values' =
           store_min_max_value(min_max_values,
                               generate_save_path(saver, files[idx]),
                               ArrayMin(feature), ArrayMax(feature))
    /\ \/ /\ disk' = np_save(disk, generate_save_path(saver, files[idx]),
                             norm_feature)
          /\ save_path' = save_feature_result(saver, files[idx])
          /\ pc' = "store"
       \/ /\ Raise
          /\ UNCHANGED <<disk, save_path>>
    /\ UNCHANGED <<loader, num_expected_samples, padder, normalizer, saver,
                   files, idx, loaded, signal, feature, norm_feature,
                   registry_before, persist_calls, persisted, denorm>>

SaveStep ==
    /\ pc = "save"
    /\ \/ /\ disk' = np_save(disk, generate_save_path(saver, files[idx]),
                            norm_feature)
          /\ save_path' = save_feature_result(saver, files[idx])
          /\ pc' = "store"
       \/ /\ Raise
          /\ UNCHANGED <<disk, save_path>>
    /\ UNCHANGED <<loader, num_expected_samples, padder, normalizer, saver,
                   min_max_values, files, idx, loaded, signal, feature,
                   norm_feature, registry_before, persist_calls, persisted,
                   denorm>>

StoreStep ==
    /\ pc = "store"
    /\ min_max_values' = store_min_max_value(min_max_values, save_path,
                                          ArrayMin(feature), ArrayMax(feature))
    /\ pc' = "recorded"
    /\ UNCHANGED <<loader, num_expected_samples, padder, normalizer, saver,
                   files, idx, loaded, signal, feature, norm_feature,
                   save_path, disk, registry_before, persist_calls, persisted,
                   denorm>>

\* _process_file returns, process prints and goes on to the next file
NextFile ==
    /\ pc = "recorded"
    /\ idx' = idx + 1
    /\ pc' = "walk"
    /\ feature' = None
    /\ norm_feature' = None
    /\ save_path' = None
    /\ UNCHANGED <<loader, num_expected_samples, padder, normalizer, saver,
                   min_max_values, files, loaded, signal, disk,
                   registry_before, persist_calls, persisted, denorm>>

\* variant: the registry persisted without waiting for the walk to end
save_min_max_values_eager ==
    /\ pc = "walk"
    /\ persist_calls' = persist_calls + 1
    /\ persisted' = min_max_values
    /\ pc' = "done"
    /\ UNCHANGED <<loader, num_expected_samples, padder, normalizer, saver,
                   min_max_values, files, idx, loaded, signal, feature,
                   norm_feature, save_path, disk, registry_before, denorm>>

\* variant: an empty registry is not persisted
save_min_max_values_unless_empty ==
    /\ pc = "walk"
    /\ idx > Len(files)
    /\ IF DOMAIN min_max_values = {}
       THEN UNCHANGED <<persist_calls, persisted>>
       ELSE /\ persist_calls' = persist_calls + 1
            /\ persisted' = min_max_values
    /\ pc' = "done"
    /\ UNCHANGED <<loader, num_expected_samples, padder, normalizer, saver,
                   min_max_values, files, idx, loaded, signal, feature,
                   norm_feature, save_path, disk, registry_before, denorm>>

save_min_max_values ==
    /\ pc = "walk"
    /\ idx > Len(files)
    /\ persist_calls' = persist_calls + 1
    /\ persisted' = min_max_values
    /\ pc' = "done"
    /\ UNCHANGED <<loader, num_expected_samples, padder, normalizer, saver,
                   min_max_values, files, idx, loaded, signal, feature,
                   norm_feature, save_path, disk, registry_before, denorm>>

Next ==
    \/ \E l \in Loaders : loader_setter(l)
    \/ \E walk \in Walks : process(walk)
    \/ LoadStep
    \/ PadStep
    \/ ExtractStep
    \/ NormalizeStep
    \/ SaveStep
    \/ StoreStep
    \/ NextFile
    \/ save_min_max_values

Spec == Init /\ [][Next]_vars

-----------------------------------------------------------------------------
(* MinMaxNormalizer on its own: normalize, then denormalize with the         *)
(* array's min and max                                                       *)

NormalizerConfigs == {<<0, 1>>, <<-1, 1>>, <<1, 1>>, <<1, 0>>}

ArrayValues == {-1, 0, 2}

Arrays ==
    UNION {[1..n -> {FromInt(v) : v \in ArrayValues}] : n \in 1..MaxArrayLen}

InitNorm ==
    /\ loader = None
    /\ num_expected_samples = NoNumExpected
    /\ padder = "constant"
    /\ normalizer \in NormalizerConfigs
    /\ saver \in Savers
    /\ min_max_values = EmptyDict
    /\ pc = "array"
    /\ files = <<>>
    /\ idx = 0
    /\ loaded = None
    /\ signal = None
    /\ feature \in Arrays
    /\ norm_feature = None
    /\ save_path = None
    /\ disk = EmptyDict
    /\ registry_before = EmptyDict
    /\ persist_calls = 0
    /\ persisted = EmptyDict
    /\ denorm = None

NormalizeCall ==
    /\ pc = "array"
    /\ norm_feature' = normalize(normalizer, feature)
    /\ pc' = "normalized"
    /\ UNCHANGED <<loader, num_expected_samples, padder, normalizer, saver,
                   min_max_values, files, idx, loaded, signal, feature,
                   save_path, disk, registry_before, persist_calls, persisted,
                   denorm>>

DenormalizeCall ==
    /\ pc = "normalized"
    /\ denorm' = denormalize(normalizer, norm_feature,
                             ArrayMin(feature), ArrayMax(feature))
    /\ pc' = "denormalized"
    /\ UNCHANGED <<loader, num_expected_samples, padder, normalizer, saver,
                   min_max_values, files, idx, loaded, signal, feature,
                   norm_feature, save_path, disk, registry_before,
                   persist_calls, persisted>>

NextNorm == NormalizeCall \/ DenormalizeCall

SpecNorm == InitNorm /\ [][NextNorm]_vars

-----------------------------------------------------------------------------
(* Properties *)

\* the path save_feature writes the current file's feature to
CurrentSavePath == generate_save_path(saver, files[idx])

DistinctBasenames ==
    \A i, j \in DOMAIN files : i # j => basename(files[i]) # basename(files[j])

\* Python's round(n / d) for n >= 0, d > 0: halves go to the even neighbour
RoundHalfEven(n, d) ==
    LET q == n \div d
        r == n % d
    IN  IF 2 * r < d THEN q
        ELSE IF 2 * r > d THEN q + 1
        ELSE IF q % 2 = 0 THEN q ELSE q + 1

\* sample_rate * duration of the assigned loader, as <<num, den>>
LoaderProduct == <<loader[1] * loader[2][1], loader[2][2]>>

\* C1: after a run of process with no failing stage over files with distinct
\* basenames, the registry handed to save_min_max_values has one entry per
\* file and every key is the path of a feature file written in that run.
C1_RegistryComplete ==
    (pc = "done" /\ DistinctBasenames) =>
        /\ Cardinality(DOMAIN persisted) = Len(files)
        /\ DOMAIN persisted \subseteq DOMAIN disk

\* C2: what save_feature returns is the path it wrote the feature to,
\* feature_save_dir/<basename>.npy.
C2_SaveFeatureReturnsPath ==
    pc \in {"store", "recorded"} =>
        /\ CurrentSavePath \in DOMAIN disk
        /\ save_path = CurrentSavePath

\* C3: while a file is being processed, and when one of its stages has
\* failed, the registry is exactly as it was when the file started; once the
\* entry is recorded the file's feature is on disk.
C3_RegistryAtomicPerFile ==
    /\ pc \in {"pad", "extract", "normalize", "save", "store", "failed"} =>
           min_max_values = registry_before
    /\ pc = "recorded" =>
           /\ CurrentSavePath \in DOMAIN disk
           /\ disk[CurrentSavePath] = norm_feature

C3_Witness ==
    /\ pc = "failed"
    /\ idx = 2
    /\ norm_feature # None
    /\ DOMAIN registry_before # {}
    /\ min_max_values = registry_before

\* C4: save_min_max_values is called at most once, only when every file of
\* the walk has been recorded, and exactly once when process returns; after
\* a failure it is not called and nothing more is processed.
C4_PersistOnceAfterWalk ==
    /\ persist_calls <= 1
    /\ persist_calls = 1 => (pc = "done" /\ idx = Len(files) + 1)
    /\ pc = "done" => (persist_calls = 1 /\ persisted = min_max_values)
    /\ pc = "failed" =>
           (persist_calls = 0 /\ idx <= Len(files) /\ ~ENABLED Next)

C4_Witness ==
    /\ pc = "done"
    /\ Len(files) = 2
    /\ persist_calls = 1
    /\ DOMAIN persisted # {}

\* C5 as stated: a loaded signal no longer than round(sample_rate * duration)
\* reaches the extractor with exactly that length, the loaded samples
\* followed only by zeros, and unchanged when it already has that length.
C5_PaddedToRounded ==
    LET expected == RoundHalfEven(LoaderProduct[1], LoaderProduct[2])
    IN  (pc = "extract" /\ Len(loaded) <= expected) =>
            /\ Len(signal) = expected
            /\ SubSeq(signal, 1, Len(loaded)) = loaded
            /\ \A i \in (Len(loaded) + 1)..Len(signal) : signal[i] = 0
            /\ Len(loaded) = expected => signal = loaded

\* C5 amended: a loaded signal no longer than int(sample_rate * duration)
\* (the product truncated, not rounded) reaches the extractor with exactly
\* that length and starts with the loaded samples; what follows them is all
\* zeros when the padder's mode is "constant"; a signal that already has
\* that length is unchanged.
C5_PaddedToTruncated ==
    LET expected == LoaderProduct[1] \div LoaderProduct[2]
    IN  (pc = "extract" /\ Len(loaded) <= expected) =>
            /\ Len(signal) = expected
            /\ SubSeq(signal, 1, Len(loaded)) = loaded
            /\ padder = "constant" =>
                   \A i \in (Len(loaded) + 1)..Len(signal) : signal[i] = 0
            /\ Len(loaded) = expected => signal = loaded

C5_Witness ==
    /\ pc = "extract"
    /\ padder = "constant"
    /\ Len(loaded) = 1
    /\ Len(signal) = 3
    /\ signal = loaded \o <<0, 0>>

\* C6: with min_val < max_val and an array whose max exceeds its min,
\* denormalize(normalize(a), a.min(), a.max()) is a, and normalize(a) has
\* minimum min_val and maximum max_val.
C6_RoundTrip ==
    (/\ pc = "denormalized"
     /\ normalizer[1] < normalizer[2]
     /\ ArrayMin(feature) # ArrayMax(feature)) =>
        /\ denorm = feature
        /\ ArrayMin(norm_feature) = FromInt(normalizer[1])
        /\ ArrayMax(norm_feature) = FromInt(normalizer[2])

C6_Witness ==
    /\ pc = "denormalized"
    /\ normalizer = <<-1, 1>>
    /\ feature = <<FromInt(2), FromInt(-1), FromInt(0)>>
    /\ norm_feature = <<FromInt(1), FromInt(-1), <<-1, 3>>>>
    /\ denorm = feature

\* C7: normalize of a constant array yields a defined result, no NaN.
C7_ConstantArrayDefined ==
    (pc = "normalized" /\ ArrayMin(feature) = ArrayMax(feature)) =>
        \A i \in DOMAIN norm_feature : norm_feature[i] # NaN

\* C8 as stated: process on a tree without files does not call
\* save_min_max_values.
C8_EmptyWalkNotPersisted ==
    (pc = "done" /\ Len(files) = 0) => persist_calls = 0

\* C8 amended: process on a tree without files still calls
\* save_min_max_values, exactly once, with the empty registry.
C8_EmptyWalkPersistsEmptyRegistry ==
    (pc = "done" /\ Len(files) = 0) =>
        (persist_calls = 1 /\ DOMAIN persisted = {})

C8_Witness ==
    /\ pc = "done"
    /\ Len(files) = 0
    /\ persist_calls = 1

\* C9: _num_expected_samples is the product sample_rate * duration of the
\* assigned loader truncated to an integer, whatever was assigned before and
\* whatever the pipeline did since; with no loader assigned it is unset.
C9_ExpectedSamplesDerived ==
    IF loader = None
    THEN num_expected_samples = NoNumExpected
    ELSE /\ num_expected_samples * LoaderProduct[2] <= LoaderProduct[1]
         /\ LoaderProduct[1] < (num_expected_samples + 1) * LoaderProduct[2]

C9_Witness ==
    /\ pc = "recorded"
    /\ idx = 2
    /\ loader = <<3, <<1, 2>>>>
    /\ num_expected_samples = 1

\* C10: the pair recorded for a file is the min and max of that file's
\* spectrogram, and denormalizing the saved feature with the recorded pair
\* gives the spectrogram back.
C10_RecordedRangeInverts ==
    pc = "recorded" =>
        /\ save_path \in DOMAIN min_max_values
        /\ min_max_values[save_path] =
               [min |-> ArrayMin(feature), max |-> ArrayMax(feature)]
        /\ denormalize(normalizer, disk[CurrentSavePath],
                       min_max_values[save_path].min,
                       min_max_values[save_path].max) = feature

====
